---- MODULE Spec2Model ----
(***************************************************************************)
(* Model of the PickAndPlace controller of ik_pick_and_place_demo.py:      *)
(* the inverse-kinematics request (ik_request), the guarded joint move,    *)
(* the gripper commands, the approach / servo / retract phases and the     *)
(* pick, place and move_to_start operations built from them.               *)
(*                                                                         *)
(* Lengths are in millimetres.  A joint angle is an abstract value: either *)
(* a literal written in the program (Lit) or the angle the kinematics      *)
(* service computed for a pose (IkAngle).  The kinematics service, the arm *)
(* and the gripper are external; their answers are drawn from small sets.  *)
(***************************************************************************)
EXTENDS Integers, Sequences, FiniteSets, TLC

VARIABLES
    status,        \* "new" | "idle" | "running" | "raised" | "dead"
    attrs,         \* attributes __init__ has set on the controller
    enabled,       \* the robot has been enabled (self._rs.enable())
    arm,           \* arm configuration: joint name -> angle
    gripper,       \* last commanded gripper state
    op,            \* operation in progress, or the last one that ended
    step,          \* position in the script of op
    pose,          \* the pose argument of pick / place
    start_angles,  \* the argument of move_to_start / the guarded move
    joint_angles,  \* local of a phase: what ik_request returned
    resp,          \* the service outcome ik_request last received
    cmds,          \* commands issued by the current call, in order
    reqs,          \* poses sent to the kinematics service by the current call
    errs,          \* error-level log entries of the current call
    results,       \* what ik_request returned during the current call, and
                   \* whether the response it validated was flagged invalid
    raised,        \* exception that escaped to the caller, or "none"
    arm0,          \* arm configuration when the current call started
    ncalls,        \* number of calls started
    inflight,      \* external calls issued and not yet returned
    prev           \* the call that ended before the current one began, and
                   \* whether each of its solves returned a full solution

vars == <<status, attrs, enabled, arm, gripper, op, step, pose, start_angles,
          joint_angles, resp, cmds, reqs, errs, results, raised, arm0, ncalls,
          inflight, prev>>

----------------------------------------------------------------------------
(* Bounds *)

MaxCalls == 2

----------------------------------------------------------------------------
(* Values *)

\* keys of the joint dictionaries of main, in the order written there
JointNames == <<"left_w0", "left_w1", "left_w2", "left_e0", "left_e1",
                "left_s0", "left_s1">>

JointSet == {JointNames[i] : i \in 1..Len(JointNames)}

\* the length of the zero list in move_to_start: [0]*7
NumJoints == 7

\* hover_distance = 0.15 m
HoverDistance == 150

\* result_type value of an invalid solution (resp.RESULT_INVALID)
RESULT_INVALID == 0

NullPose == [x |-> 0, y |-> 0, z |-> 0, q |-> "none"]

\* block_poses of main: the one pose appended (the others are commented out)
BlockPoses == { [x |-> 750, y |-> -100, z |-> -129, q |-> "overhead"] }

Lit(n) == [src |-> "lit", pose |-> NullPose, val |-> n]

IkAngle(p) == [src |-> "ik", pose |-> p, val |-> 0]

EmptyDict == [k \in {} |-> Lit(0)]

PyNone == [tag |-> "None", d |-> EmptyDict]

PyFalse == [tag |-> "False", d |-> EmptyDict]

PyDict(f) == [tag |-> "dict", d |-> f]

\* Python truth value of None, False or a dict
Truthy(v) == v.tag = "dict" /\ DOMAIN v.d # {}

Min(a, b) == IF a <= b THEN a ELSE b

\* dict(zip(names, positions)): pairs up to the shorter length, a repeated
\* key keeps its last value
DictZip(names, positions) ==
    LET n == Min(Len(names), Len(positions))
        keys == {names[i] : i \in 1..n}
        last(k) == CHOOSE i \in 1..n :
                       names[i] = k /\ \A j \in (i+1)..n : names[j] # k
    IN  [k \in keys |-> positions[last(k)]]

----------------------------------------------------------------------------
(* External collaborators: kinematics service, arm *)

\* a seed type a valid response may carry (ikreq.SEED_CURRENT)
SEED_CURRENT == 2

\* result_type byte strings the service may answer with
ResultTypes == { <<>>, <<RESULT_INVALID>>, <<SEED_CURRENT>>,
                 <<RESULT_INVALID, SEED_CURRENT>>,
                 <<SEED_CURRENT, RESULT_INVALID>> }

\* joints fields the service may answer with for pose p: no JointState at
\* all, or one whose name and position lists have these lengths
JointFields(p) ==
    { <<>> } \cup
    { << [name     |-> SubSeq(JointNames, 1, n),
          position |-> [i \in 1..m |-> IkAngle(p)]] >> :
        n \in {0, NumJoints - 1, NumJoints}, m \in {0, NumJoints} }

\* what the call self._iksvc(ikreq) can do for pose p: raise a service
\* exception, or return a response
ServiceOutcomes(p) ==
    { [exc |-> TRUE, result_type |-> <<>>, joints |-> <<>>] } \cup
    { [exc |-> FALSE, result_type |-> rt, joints |-> js] :
        rt \in ResultTypes, js \in JointFields(p) }

NoResp == [exc |-> FALSE, result_type |-> <<>>, joints |-> <<>>]

\* Limb.move_to_joint_positions: the named joints go to their targets
MoveArm(a, target) ==
    [j \in JointSet |-> IF j \in DOMAIN target THEN target[j] ELSE a[j]]

\* poses the end effector may be read at when the arm is not at a
\* configuration the service computed
OffModelPoses == { [x |-> 600, y |-> 200, z |-> 100, q |-> "start"],
                   [x |-> 600, y |-> 200, z |-> 100, q |-> "tilted"] }

\* Limb.endpoint_pose(): at a configuration the service computed for pose p
\* the end effector is at p
EndpointPoses(a) ==
    LET a1 == a[JointNames[1]]
    IN  IF a1.src = "ik" /\ \A j \in JointSet : a[j] = a1
        THEN {a1.pose}
        ELSE OffModelPoses

----------------------------------------------------------------------------
(* ik_request *)

IkOut(exn, value, log) == [raise |-> exn, value |-> value, log |-> log]

\* ik_request logging an invalid response but going on to convert its joints
ik_request_falls_through(r) ==
    IF r.exc
    THEN IkOut("none", PyFalse, <<"Service call failed">>)
    ELSE IF Len(r.result_type) = 0
    THEN IkOut("IndexError", PyNone, <<>>)
    ELSE IF Len(r.joints) = 0
    THEN IkOut("IndexError", PyNone, <<>>)
    ELSE IkOut("none",
               PyDict(DictZip(r.joints[1].name, r.joints[1].position)),
               IF r.result_type[1] # RESULT_INVALID
               THEN <<>> ELSE <<"INVALID POSE">>)

\* ik_request reading the last byte of result_type instead of the first
ik_request_last_byte(r) ==
    IF r.exc
    THEN IkOut("none", PyFalse, <<"Service call failed">>)
    ELSE IF Len(r.result_type) = 0
    THEN IkOut("IndexError", PyNone, <<>>)
    ELSE IF r.result_type[Len(r.result_type)] # RESULT_INVALID
    THEN IF Len(r.joints) = 0
         THEN IkOut("IndexError", PyNone, <<>>)
         ELSE IkOut("none",
                    PyDict(DictZip(r.joints[1].name, r.joints[1].position)),
                    <<>>)
    ELSE IkOut("none", PyFalse, <<"INVALID POSE">>)

\* ik_request without its try / except: the service exception propagates
ik_request_uncaught(r) ==
    IF r.exc
    THEN IkOut("ServiceException", PyNone, <<>>)
    ELSE IF Len(r.result_type) = 0
    THEN IkOut("IndexError", PyNone, <<>>)
    ELSE IF r.result_type[1] # RESULT_INVALID
    THEN IF Len(r.joints) = 0
         THEN IkOut("IndexError", PyNone, <<>>)
         ELSE IkOut("none",
                    PyDict(DictZip(r.joints[1].name, r.joints[1].position)),
                    <<>>)
    ELSE IkOut("none", PyFalse, <<"INVALID POSE">>)

\* ik_request after the service call: the value returned, the exception
\* raised and the error log entries written, for service outcome r
ik_request(r) ==
    IF r.exc
    THEN IkOut("none", PyFalse, <<"Service call failed">>)
    ELSE IF Len(r.result_type) = 0
    THEN IkOut("IndexError", PyNone, <<>>)          \* resp_seeds[0] of ()
    ELSE IF r.result_type[1] # RESULT_INVALID
    THEN IF Len(r.joints) = 0
         THEN IkOut("IndexError", PyNone, <<>>)     \* resp.joints[0] of []
         ELSE IkOut("none",
                    PyDict(DictZip(r.joints[1].name, r.joints[1].position)),
                    <<>>)
    ELSE IkOut("none", PyFalse, <<"INVALID POSE">>)

----------------------------------------------------------------------------
(* Construction *)

\* attributes assigned before rospy.wait_for_service
AttrsBeforeWait == {"_limb_name", "_hover_distance", "_verbose", "_limb",
                    "_gripper", "_iksvc"}

\* attributes assigned by a completed __init__
InitAttrs == AttrsBeforeWait \cup {"_rs", "_init_state"}

StartArm == [j \in JointSet |-> Lit(0)]

\* no call has ended yet
NoCall == [op |-> "none", pose |-> NullPose, solved |-> FALSE]

Init ==
    /\ status = "new"
    /\ attrs = {}
    /\ enabled = FALSE
    /\ arm = StartArm
    /\ gripper = "unknown"
    /\ op = "__init__"
    /\ step = 0
    /\ pose = NullPose
    /\ start_angles = PyNone
    /\ joint_angles = PyNone
    /\ resp = NoResp
    /\ cmds = <<>>
    /\ reqs = <<>>
    /\ errs = <<>>
    /\ results = <<>>
    /\ raised = "none"
    /\ arm0 = StartArm
    /\ ncalls = 0
    /\ inflight = {}
    /\ prev = NoCall

\* a constructor that enables the robot before it waits for the service
ConstructEnableFirst ==
    /\ status = "new"
    /\ enabled' = TRUE
    /\ \E available \in BOOLEAN :
         IF available
         THEN /\ attrs' = InitAttrs
              /\ status' = "idle"
              /\ raised' = raised
         ELSE /\ attrs' = InitAttrs
              /\ status' = "dead"
              /\ raised' = "ROSException"
    /\ UNCHANGED <<arm, gripper, op, step, pose, start_angles, joint_angles,
                   resp, cmds, reqs, errs, results, arm0, ncalls, inflight,
                   prev>>

\* PickAndPlace.__init__: wait_for_service raises when the service does not
\* become available within 5 s, otherwise the robot is enabled
Construct ==
    /\ status = "new"
    /\ \E available \in BOOLEAN :
         IF available
         THEN /\ attrs' = InitAttrs
              /\ enabled' = TRUE
              /\ status' = "idle"
              /\ raised' = raised
         ELSE /\ attrs' = AttrsBeforeWait
              /\ enabled' = enabled
              /\ status' = "dead"
              /\ raised' = "ROSException"
    /\ UNCHANGED <<arm, gripper, op, step, pose, start_angles, joint_angles,
                   resp, cmds, reqs, errs, results, arm0, ncalls, inflight,
                   prev>>

----------------------------------------------------------------------------
(* The operations as sequences of steps *)

\* pick closing the gripper before it servos down to the pose
PickScriptCloseEarly ==
    <<"gripper_open", "approach_ik", "approach_move", "gripper_close",
      "servo_ik", "servo_move", "retract_ik", "retract_move">>

PickScript ==
    <<"gripper_open", "approach_ik", "approach_move", "servo_ik",
      "servo_move", "gripper_close", "retract_ik", "retract_move">>

\* place releasing before it servos down to the pose
PlaceScriptOpenEarly ==
    <<"approach_ik", "approach_move", "gripper_open", "servo_ik",
      "servo_move", "retract_ik", "retract_move">>

PlaceScript ==
    <<"approach_ik", "approach_move", "servo_ik", "servo_move",
      "gripper_open", "retract_ik", "retract_move">>

\* move_to_start opening the gripper before it moves the arm
MoveToStartScriptOpenFirst ==
    <<"default_angles", "gripper_open", "start_move", "sleep_ready">>

MoveToStartScript ==
    <<"default_angles", "start_move", "gripper_open", "sleep_ready">>

GuardedMoveScript == <<"direct_move">>

\* the joint dictionaries pos2 .. pos20 dispatched by main; pos3 is written
\* without its left_s1 entry
FirstPos == 2

LastPos == 20

Pos(i) ==
    [j \in (IF i = 3 THEN JointSet \ {"left_s1"} ELSE JointSet) |-> Lit(i)]

MainScript == [i \in 1..(LastPos - FirstPos + 1) |-> "script_move"]

\* starting_joint_angles of main (the values of pos1)
StartingJointAngles == [j \in JointSet |-> Lit(1)]

Script(o) ==
    CASE o = "pick" -> PickScript
      [] o = "place" -> PlaceScript
      [] o = "move_to_start" -> MoveToStartScript
      [] o = "guarded_move" -> GuardedMoveScript
      [] o = "main" -> MainScript
      [] OTHER -> <<>>

Cur == IF status = "running" THEN Script(op)[step] ELSE "none"

\* the phase a step belongs to
Phase(s) ==
    CASE s \in {"approach_ik", "approach_move"} -> "approach"
      [] s \in {"servo_ik", "servo_move"} -> "servo"
      [] s \in {"retract_ik", "retract_move"} -> "retract"
      [] OTHER -> s

\* control passes to the next statement of the operation, or back to the
\* caller after the last one
Advance ==
    /\ raised' = raised
    /\ IF step < Len(Script(op))
       THEN step' = step + 1 /\ status' = status
       ELSE step' = 0 /\ status' = "idle"

\* an exception leaves the operation and reaches the caller
Raise(exn) ==
    /\ raised' = exn
    /\ status' = "raised"
    /\ step' = step

\* a caller starts operation o with pose p and joint dictionary sa
Begin(o, p, sa) ==
    /\ status = "idle"
    /\ ncalls < MaxCalls
    /\ ncalls' = ncalls + 1
    /\ status' = "running"
    /\ op' = o
    /\ step' = 1
    /\ pose' = p
    /\ start_angles' = sa
    /\ joint_angles' = PyNone
    /\ resp' = NoResp
    /\ cmds' = <<>>
    /\ reqs' = <<>>
    /\ errs' = <<>>
    /\ results' = <<>>
    /\ arm0' = arm
    /\ prev' = [op |-> op, pose |-> pose,
                solved |-> /\ Len(results) > 0
                           /\ \A i \in 1..Len(results) :
                                  DOMAIN results[i].value.d = JointSet]
    /\ UNCHANGED <<attrs, enabled, arm, gripper, raised, inflight>>

CallPick == \E p \in BlockPoses : Begin("pick", p, PyNone)

CallPlace == \E p \in BlockPoses : Begin("place", p, PyNone)

CallMoveToStart ==
    \E sa \in {PyNone, PyDict(EmptyDict), PyDict(StartingJointAngles)} :
        Begin("move_to_start", NullPose, sa)

CallGuardedMove ==
    \E sa \in {PyFalse, PyDict(EmptyDict), PyDict(StartingJointAngles)} :
        Begin("guarded_move", NullPose, sa)

CallMain == Begin("main", NullPose, PyNone)

----------------------------------------------------------------------------
(* Steps *)

Cmd(c, angles, phase) == [op |-> c, angles |-> angles, phase |-> phase]

\* an error-level log entry (rospy.logerr) written in the given phase
Err(msg, phase) == [msg |-> msg, phase |-> phase]

\* the validity indicator of a response signals "invalid"
Invalid(r) ==
    ~r.exc /\ Len(r.result_type) > 0 /\ r.result_type[1] = RESULT_INVALID

\* the argument of the guarded move the current statement makes
MoveTarget ==
    CASE Cur \in {"approach_move", "servo_move", "retract_move"} -> joint_angles
      [] Cur \in {"start_move", "direct_move"} -> start_angles
      [] Cur = "script_move" -> PyDict(Pos(FirstPos + step - 1))
      [] OTHER -> PyNone

\* the call the current statement makes on the kinematics service, the arm
\* or the gripper, if it makes one
ExternalCall ==
    CASE Cur \in {"approach_ik", "servo_ik", "retract_ik"} -> "ik"
      [] Cur \in {"gripper_open", "gripper_close"} -> "gripper"
      [] Truthy(MoveTarget) -> "move"
      [] OTHER -> "none"

\* the current statement sends its external call
Issue ==
    /\ status = "running"
    /\ ExternalCall # "none"
    /\ <<ExternalCall, step>> \notin inflight
    /\ inflight' = inflight \cup {<<ExternalCall, step>>}
    /\ UNCHANGED <<status, attrs, enabled, arm, gripper, op, step, pose,
                   start_angles, joint_angles, resp, cmds, reqs, errs,
                   results, raised, arm0, ncalls, prev>>

\* a call that is sent and never waited for
AwaitedNot ==
    /\ ExternalCall # "none" => <<ExternalCall, step>> \in inflight
    /\ inflight' = inflight
    /\ prev' = prev

\* the external call of the current statement, if any, has been sent and
\* returns: the calls are synchronous, the statement ends with the call
Awaited ==
    /\ ExternalCall # "none" => <<ExternalCall, step>> \in inflight
    /\ inflight' = inflight \ {<<ExternalCall, step>>}
    /\ prev' = prev

\* the guarded move without its guard: the target is dispatched as it is
GuardedMoveUnguarded(ja, phase) ==
    /\ cmds' = Append(cmds, Cmd("move", ja.d, phase))
    /\ arm' = MoveArm(arm, ja.d)
    /\ errs' = errs

\* _guarded_move_to_joint_position(ja), called in the given phase
GuardedMove(ja, phase) ==
    IF Truthy(ja)
    THEN /\ cmds' = Append(cmds, Cmd("move", ja.d, phase))
         /\ arm' = MoveArm(arm, ja.d)
         /\ errs' = errs
    ELSE /\ errs' = Append(errs, Err("No Joint Angles provided", phase))
         /\ cmds' = cmds
         /\ arm' = arm

\* ik_request sending its request a second time when the first answer is
\* a failure
IkRequestRetry(p) ==
    /\ Awaited
    /\ \E r \in ServiceOutcomes(p) :
         LET out == ik_request(r)
         IN  /\ resp' = r
             /\ reqs' = IF out.raise = "none" /\ ~Truthy(out.value)
                        THEN reqs \o <<p, p>>
                        ELSE Append(reqs, p)
             /\ errs' = errs \o [i \in 1..Len(out.log) |->
                                      Err(out.log[i], Phase(Cur))]
             /\ IF out.raise # "none"
                THEN /\ Raise(out.raise)
                     /\ UNCHANGED <<joint_angles, results>>
                ELSE /\ joint_angles' = out.value
                     /\ results' = Append(results,
                                       [phase |-> Phase(Cur),
                                        value |-> out.value,
                                        invalid |-> Invalid(r),
                                        exc |-> r.exc])
                     /\ Advance
    /\ UNCHANGED <<attrs, enabled, arm, gripper, op, pose, start_angles,
                   cmds, arm0, ncalls>>

\* the whole of ik_request(p): the request is sent, the service answers,
\* the answer is validated and converted
IkRequest(p) ==
    /\ Awaited
    /\ reqs' = Append(reqs, p)
    /\ \E r \in ServiceOutcomes(p) :
         LET out == ik_request(r)
         IN  /\ resp' = r
             /\ errs' = errs \o [i \in 1..Len(out.log) |->
                                      Err(out.log[i], Phase(Cur))]
             /\ IF out.raise # "none"
                THEN /\ Raise(out.raise)
                     /\ UNCHANGED <<joint_angles, results>>
                ELSE /\ joint_angles' = out.value
                     /\ results' = Append(results,
                                       [phase |-> Phase(Cur),
                                        value |-> out.value,
                                        invalid |-> Invalid(r),
                                        exc |-> r.exc])
                     /\ Advance
    /\ UNCHANGED <<attrs, enabled, arm, gripper, op, pose, start_angles,
                   cmds, arm0, ncalls>>

\* the pose _approach solves for: a copy of the pose raised by the hover
\* distance
ApproachPose(p) == [p EXCEPT !.z = p.z + HoverDistance]

\* a retract that rises by twice the hover distance
RetractPoseDouble(cur) ==
    [x |-> cur.x, y |-> cur.y, z |-> cur.z + 2 * HoverDistance, q |-> cur.q]

\* the pose _retract solves for: the current end-effector pose raised by the
\* hover distance
RetractPose(cur) ==
    [x |-> cur.x, y |-> cur.y, z |-> cur.z + HoverDistance, q |-> cur.q]

\* an approach without the deepcopy: the caller's pose itself is raised
ApproachIkInPlace ==
    /\ Cur = "approach_ik"
    /\ Awaited
    /\ pose' = ApproachPose(pose)
    /\ reqs' = Append(reqs, pose')
    /\ \E r \in ServiceOutcomes(pose') :
         LET out == ik_request(r)
         IN  /\ resp' = r
             /\ errs' = errs \o [i \in 1..Len(out.log) |->
                                      Err(out.log[i], Phase(Cur))]
             /\ IF out.raise # "none"
                THEN /\ Raise(out.raise)
                     /\ UNCHANGED <<joint_angles, results>>
                ELSE /\ joint_angles' = out.value
                     /\ results' = Append(results,
                                       [phase |-> Phase(Cur),
                                        value |-> out.value,
                                        invalid |-> Invalid(r),
                                        exc |-> r.exc])
                     /\ Advance
    /\ UNCHANGED <<attrs, enabled, arm, gripper, op, start_angles,
                   cmds, arm0, ncalls>>

\* _approach, first half: ik_request(approach)
ApproachIk ==
    /\ Cur = "approach_ik"
    /\ IkRequest(ApproachPose(pose))

\* _servo_to_pose, first half: ik_request(pose)
ServoIk ==
    /\ Cur = "servo_ik"
    /\ IkRequest(pose)

\* a retract computed from the pose argument instead of the end effector
RetractIkFromTarget ==
    /\ Cur = "retract_ik"
    /\ IkRequest(RetractPose(pose))

\* _retract, first half: endpoint_pose() and ik_request(ik_pose)
RetractIk ==
    /\ Cur = "retract_ik"
    /\ \E cur \in EndpointPoses(arm) : IkRequest(RetractPose(cur))

\* a phase that goes back to its solve when the solve failed
PhaseMoveRetryOnFailure ==
    /\ Cur \in {"approach_move", "servo_move", "retract_move"}
    /\ Awaited
    /\ GuardedMove(joint_angles, Phase(Cur))
    /\ joint_angles' = PyNone
    /\ resp' = NoResp
    /\ IF Truthy(joint_angles)
       THEN Advance
       ELSE raised' = raised /\ step' = step - 1 /\ status' = status
    /\ UNCHANGED <<attrs, enabled, gripper, op, pose, start_angles, reqs,
                   results, arm0, ncalls>>

\* a phase that gives the whole operation up when its solve failed
PhaseMoveAbortOnFailure ==
    /\ Cur \in {"approach_move", "servo_move", "retract_move"}
    /\ Awaited
    /\ GuardedMove(joint_angles, Phase(Cur))
    /\ joint_angles' = PyNone
    /\ resp' = NoResp
    /\ IF Truthy(joint_angles)
       THEN Advance
       ELSE raised' = raised /\ step' = 0 /\ status' = "idle"
    /\ UNCHANGED <<attrs, enabled, gripper, op, pose, start_angles, reqs,
                   results, arm0, ncalls>>

\* _approach, _servo_to_pose, _retract, second half: the guarded move to
\* the joint angles just computed
PhaseMove ==
    /\ Cur \in {"approach_move", "servo_move", "retract_move"}
    /\ Awaited
    /\ GuardedMove(joint_angles, Phase(Cur))
    /\ joint_angles' = PyNone
    /\ resp' = NoResp
    /\ Advance
    /\ UNCHANGED <<attrs, enabled, gripper, op, pose, start_angles, reqs,
                   results, arm0, ncalls>>

\* gripper_open: open, then sleep 1 s
GripperOpen ==
    /\ Cur = "gripper_open"
    /\ Awaited
    /\ gripper' = "open"
    /\ cmds' = cmds \o <<Cmd("open", EmptyDict, "gripper_open"),
                         Cmd("sleep", EmptyDict, "gripper_open")>>
    /\ Advance
    /\ UNCHANGED <<attrs, enabled, arm, op, pose, start_angles, joint_angles,
                   resp, reqs, errs, results, arm0, ncalls>>

\* a gripper_close that does nothing when the descend move was skipped
GripperCloseIfDescended ==
    /\ Cur = "gripper_close"
    /\ Awaited
    /\ IF \E i \in 1..Len(cmds) : cmds[i].op = "move" /\ cmds[i].phase = "servo"
       THEN /\ gripper' = "closed"
            /\ cmds' = cmds \o <<Cmd("close", EmptyDict, "gripper_close"),
                                 Cmd("sleep", EmptyDict, "gripper_close")>>
       ELSE /\ gripper' = gripper
            /\ cmds' = cmds
    /\ Advance
    /\ UNCHANGED <<attrs, enabled, arm, op, pose, start_angles, joint_angles,
                   resp, reqs, errs, results, arm0, ncalls>>

\* gripper_close: close, then sleep 1 s
GripperClose ==
    /\ Cur = "gripper_close"
    /\ Awaited
    /\ gripper' = "closed"
    /\ cmds' = cmds \o <<Cmd("close", EmptyDict, "gripper_close"),
                         Cmd("sleep", EmptyDict, "gripper_close")>>
    /\ Advance
    /\ UNCHANGED <<attrs, enabled, arm, op, pose, start_angles, joint_angles,
                   resp, reqs, errs, results, arm0, ncalls>>

\* move_to_start: "if not start_angles" replaces the argument by the zero
\* dictionary over self._joint_names
DefaultAngles ==
    /\ Cur = "default_angles"
    /\ Awaited
    /\ IF Truthy(start_angles)
       THEN start_angles' = start_angles /\ Advance
       ELSE IF "_joint_names" \in attrs
       THEN /\ start_angles' = PyDict(DictZip(JointNames,
                                   [i \in 1..NumJoints |-> Lit(0)]))
            /\ Advance
       ELSE start_angles' = start_angles /\ Raise("AttributeError")
    /\ UNCHANGED <<attrs, enabled, arm, gripper, op, pose, joint_angles,
                   resp, cmds, reqs, errs, results, arm0, ncalls>>

\* move_to_start: the guarded move to start_angles
StartMove ==
    /\ Cur = "start_move"
    /\ Awaited
    /\ GuardedMove(start_angles, "start")
    /\ Advance
    /\ UNCHANGED <<attrs, enabled, gripper, op, pose, start_angles,
                   joint_angles, resp, reqs, results, arm0, ncalls>>

\* move_to_start: sleep 1 s, then print the ready message
SleepReady ==
    /\ Cur = "sleep_ready"
    /\ Awaited
    /\ cmds' = cmds \o <<Cmd("sleep", EmptyDict, "start"),
                         Cmd("ready", EmptyDict, "start")>>
    /\ Advance
    /\ UNCHANGED <<attrs, enabled, arm, gripper, op, pose, start_angles,
                   joint_angles, resp, reqs, errs, results, arm0, ncalls>>

\* a caller's own call of the guarded move
DirectMove ==
    /\ Cur = "direct_move"
    /\ Awaited
    /\ GuardedMove(start_angles, "direct")
    /\ Advance
    /\ UNCHANGED <<attrs, enabled, gripper, op, pose, start_angles,
                   joint_angles, resp, reqs, results, arm0, ncalls>>

\* main: the next guarded move of the scripted sequence
ScriptMove ==
    /\ Cur = "script_move"
    /\ Awaited
    /\ GuardedMove(PyDict(Pos(FirstPos + step - 1)), "script")
    /\ Advance
    /\ UNCHANGED <<attrs, enabled, gripper, op, pose, start_angles,
                   joint_angles, resp, reqs, results, arm0, ncalls>>

Next ==
    \/ Construct
    \/ CallPick
    \/ CallPlace
    \/ CallMoveToStart
    \/ CallGuardedMove
    \/ CallMain
    \/ Issue
    \/ ApproachIk
    \/ ServoIk
    \/ RetractIk
    \/ PhaseMove
    \/ GripperOpen
    \/ GripperClose
    \/ DefaultAngles
    \/ StartMove
    \/ SleepReady
    \/ DirectMove
    \/ ScriptMove

Spec == Init /\ [][Next]_vars

\* the statements of a call in progress: everything but construction and
\* the caller's decision to make a call
Step ==
    \/ Issue
    \/ ApproachIk
    \/ ServoIk
    \/ RetractIk
    \/ PhaseMove
    \/ GripperOpen
    \/ GripperClose
    \/ DefaultAngles
    \/ StartMove
    \/ SleepReady
    \/ DirectMove
    \/ ScriptMove

\* the single thread of control keeps running and every external call
\* returns: a call in progress takes its next step
FairSpec == Init /\ [][Next]_vars /\ WF_vars(Step)

----------------------------------------------------------------------------
(* Properties *)

\* the arm and gripper commands of the current call, in order
ArmCmds == SelectSeq(cmds, LAMBDA c : c.op \in {"move", "open", "close"})

\* the kind and phase of each command of a sequence
Kinds(seq) == [i \in 1..Len(seq) |-> <<seq[i].op, seq[i].phase>>]

IsPrefix(a, b) == Len(a) <= Len(b) /\ a = SubSeq(b, 1, Len(a))

\* operation o has returned to its caller
Done(o) == status = "idle" /\ op = o

\* every solve of the current call so far returned a non-empty target
AllSolved == \A i \in 1..Len(results) : Truthy(results[i].value)

\* the guarded move is the next statement, and this is its argument
AtGuardedMove ==
    Cur \in {"approach_move", "servo_move", "retract_move", "start_move",
             "direct_move", "script_move"}

GuardedTarget ==
    CASE Cur \in {"approach_move", "servo_move", "retract_move"} -> joint_angles
      [] Cur \in {"start_move", "direct_move"} -> start_angles
      [] OTHER -> PyDict(Pos(FirstPos + step - 1))

\* C1: a guarded move whose target is empty (an empty dictionary or the
\* solver's False) issues no command, writes exactly one error log entry and
\* leaves the arm configuration as it was.
C1_EmptyTargetStaysPut ==
    [][ (AtGuardedMove /\ ~Truthy(GuardedTarget))
          => /\ cmds' = cmds
             /\ Len(errs') = Len(errs) + 1
             /\ errs'[Len(errs')].msg = "No Joint Angles provided"
             /\ arm' = arm ]_vars

\* a direct guarded move with the solver's failure value has returned
C1_Witness ==
    /\ Done("guarded_move")
    /\ start_angles = PyFalse
    /\ cmds = <<>>
    /\ Len(errs) = 1
    /\ arm = arm0

\* the commands of a place whose three solves returned r1, r2, r3
PlaceCmds(r) ==
    << Cmd("move", r[1].value.d, "approach"),
       Cmd("move", r[2].value.d, "servo"),
       Cmd("open", EmptyDict, "gripper_open"),
       Cmd("move", r[3].value.d, "retract") >>

\* C2: with all solves succeeding, place(P) issues exactly move(approach of
\* P raised by the hover distance), move(descend to P), open-gripper,
\* move(retract), in this order, and never closes the gripper.
C2_PlaceOrder ==
    (op = "place" /\ status \in {"running", "idle"} /\ AllSolved)
      => /\ IsPrefix(Kinds(ArmCmds),
                     <<<<"move", "approach">>, <<"move", "servo">>,
                       <<"open", "gripper_open">>, <<"move", "retract">>>>)
         /\ Len(reqs) >= 1 => reqs[1] = ApproachPose(pose)
         /\ Len(reqs) >= 2 => reqs[2] = pose
         /\ status = "idle" => /\ Len(results) = 3
                               /\ ArmCmds = PlaceCmds(results)

C2_Witness ==
    /\ Done("place")
    /\ AllSolved
    /\ Len(ArmCmds) = 4
    /\ reqs[1].z = pose.z + HoverDistance

\* the commands of a pick whose three solves returned r1, r2, r3
PickCmds(r) ==
    << Cmd("open", EmptyDict, "gripper_open"),
       Cmd("move", r[1].value.d, "approach"),
       Cmd("move", r[2].value.d, "servo"),
       Cmd("close", EmptyDict, "gripper_close"),
       Cmd("move", r[3].value.d, "retract") >>

\* C3: with all solves succeeding, pick(P) issues exactly open-gripper,
\* move(approach of P raised by the hover distance), move(descend to P),
\* close-gripper, move(retract), in this order; the gripper is closed only
\* after the descend move.
C3_PickOrder ==
    (op = "pick" /\ status \in {"running", "idle"} /\ AllSolved)
      => /\ IsPrefix(Kinds(ArmCmds),
                     <<<<"open", "gripper_open">>, <<"move", "approach">>,
                       <<"move", "servo">>, <<"close", "gripper_close">>,
                       <<"move", "retract">>>>)
         /\ Len(reqs) >= 1 => reqs[1] = ApproachPose(pose)
         /\ Len(reqs) >= 2 => reqs[2] = pose
         /\ status = "idle" => /\ Len(results) = 3
                               /\ ArmCmds = PickCmds(results)

C3_Witness ==
    /\ Done("pick")
    /\ AllSolved
    /\ Len(ArmCmds) = 5
    /\ gripper = "closed"
    /\ reqs[2] = pose

\* the position of a statement in pick
PickStep(name) == CHOOSE i \in 1..Len(PickScript) : PickScript[i] = name

\* the solve of the given phase of the current call answered "invalid"
InvalidIn(phase) ==
    \E i \in 1..Len(results) :
        results[i].phase = phase /\ results[i].invalid

\* a move command of the given phase was issued by the current call
MovedIn(phase) ==
    \E i \in 1..Len(cmds) : cmds[i].op = "move" /\ cmds[i].phase = phase

\* C4: when the service answers "invalid" for the solve of the target pose
\* itself, pick has opened the gripper first, issues no descend move, and
\* still closes the gripper afterwards.
C4_PickInvalidDescend ==
    (op = "pick" /\ InvalidIn("servo"))
      => /\ Len(ArmCmds) >= 1 /\ ArmCmds[1].op = "open"
         /\ ~MovedIn("servo")
         /\ (status # "running" \/ step > PickStep("gripper_close"))
              => \E i \in 2..Len(ArmCmds) :
                     /\ ArmCmds[i].op = "close"
                     /\ \A j \in 1..(i-1) : ArmCmds[j].phase # "retract"

C4_Witness ==
    /\ Done("pick")
    /\ InvalidIn("servo")
    /\ ~InvalidIn("approach")
    /\ MovedIn("approach")
    /\ gripper = "closed"

\* a response that is neither a failure nor a solution: no result_type
\* byte, or a valid result_type with no joint state
Malformed(r) ==
    /\ ~r.exc
    /\ \/ Len(r.result_type) = 0
       \/ r.result_type[1] # RESULT_INVALID /\ Len(r.joints) = 0

\* the gripper commands of the current call
GripperCmds == SelectSeq(cmds, LAMBDA c : c.op \in {"open", "close"})

\* C5: whatever the combination of failed and successful solves of a pick
\* or place, the operation does not stop early and does not raise: it can
\* always take its next step, the three solves are made in order, every
\* gripper command is issued, the moves skipped are exactly those whose
\* solve failed, and the call returns.  (A solve that neither fails nor
\* succeeds, because the response is malformed, is not one of these cases.)
C5_NoAbort ==
    op \in {"pick", "place"}
      => /\ status = "raised" => Malformed(resp)
         /\ status = "running" => ENABLED Next
         /\ status = "idle"
              => /\ raised = "none"
                 /\ Len(reqs) = 3
                 /\ [i \in 1..Len(results) |-> results[i].phase]
                      = <<"approach", "servo", "retract">>
                 /\ [i \in 1..Len(GripperCmds) |-> GripperCmds[i].op]
                      = (IF op = "pick" THEN <<"open", "close">>
                                        ELSE <<"open">>)
                 /\ \A i \in 1..3 :
                        Truthy(results[i].value) <=> MovedIn(results[i].phase)
                 /\ Len(SelectSeq(cmds, LAMBDA c : c.op = "move")) <= 3

\* a pick returned after its approach and retract solves failed
C5_Witness ==
    /\ Done("pick")
    /\ ~Truthy(results[1].value)
    /\ Truthy(results[2].value)
    /\ ~Truthy(results[3].value)
    /\ MovedIn("servo")
    /\ Len(errs) = 4

\* C6: a response whose first result_type byte is "invalid" makes
\* ik_request return False whatever its joints field holds, and no move of
\* the phase that asked is issued.
C6_InvalidAlwaysFails ==
    /\ Invalid(resp) => status = "running" /\ joint_angles = PyFalse
    /\ \A i \in 1..Len(results) :
           results[i].invalid
             => results[i].value = PyFalse /\ ~MovedIn(results[i].phase)

\* an invalid response carrying a full set of joints was turned down
C6_Witness ==
    /\ Invalid(resp)
    /\ Len(resp.joints) = 1
    /\ Len(resp.joints[1].name) = NumJoints
    /\ Len(resp.joints[1].position) = NumJoints
    /\ joint_angles = PyFalse

\* C7: every joint target dispatched to the arm has an entry for each of
\* the 7 joints.
C7_CompleteTargets ==
    \A i \in 1..Len(cmds) :
        cmds[i].op = "move"
          => Cardinality(DOMAIN cmds[i].angles) = NumJoints

\* C8: what ik_request returns has an entry for each of the 7 joints, or is
\* the empty / failure value.
C8_FullOrEmpty ==
    \A i \in 1..Len(results) :
        \/ ~Truthy(results[i].value)
        \/ Cardinality(DOMAIN results[i].value.d) = NumJoints

\* the all-zero configuration of the 7 joints
ZeroAngles == [j \in JointSet |-> Lit(0)]

\* C9: move_to_start without a joint configuration moves the arm to the
\* all-zero configuration, then opens the gripper, pauses and signals ready.
C9_DefaultStart ==
    (/\ op = "move_to_start"
     /\ status \in {"idle", "raised"}
     /\ ~Truthy(start_angles) \/ start_angles = PyDict(ZeroAngles))
      => /\ status = "idle"
         /\ Kinds(cmds) = <<<<"move", "start">>, <<"open", "gripper_open">>,
                            <<"sleep", "gripper_open">>, <<"sleep", "start">>,
                            <<"ready", "start">>>>
         /\ cmds[1].angles = ZeroAngles

\* C10: no exception escapes from an operation of a constructed controller;
\* only construction can fail.
C10_OnlyConstructionFatal ==
    raised # "none" => status = "dead" /\ op = "__init__"


\* the solve of the given phase of the current call met a service exception
ExceptionIn(phase) ==
    \E i \in 1..Len(results) : results[i].phase = phase /\ results[i].exc

\* C11: a service exception during the call of the kinematics service makes
\* ik_request return its failure value and write an error log entry, is not
\* raised to the caller, and the phase that asked issues no move.
C11_TransportFailure ==
    /\ resp.exc
         => /\ status = "running"
            /\ raised = "none"
            /\ joint_angles = PyFalse
            /\ Len(errs) >= 1
            /\ errs[Len(errs)] = Err("Service call failed",
                                     results[Len(results)].phase)
    /\ \A i \in 1..Len(results) :
           results[i].exc
             => /\ results[i].value = PyFalse
                /\ ~MovedIn(results[i].phase)
                /\ \E k \in 1..Len(errs) :
                       errs[k] = Err("Service call failed", results[i].phase)

\* a place returned whose servo solve met a service exception
C11_Witness ==
    /\ Done("place")
    /\ ExceptionIn("servo")
    /\ ~MovedIn("servo")
    /\ MovedIn("approach")
    /\ raised = "none"

\* the "_ik" statements among the first n statements of a script
SolvesBefore(script, n) ==
    Cardinality({i \in 1..Min(n, Len(script)) :
                    script[i] \in {"approach_ik", "servo_ik", "retract_ik"}})

\* C12: there are no retries.  Each solve sends exactly one request to the
\* kinematics service, and a pick or place that returns has made exactly
\* three solves, so three requests, whatever the solves returned.
C12_NoRetries ==
    op \in {"pick", "place"}
      => /\ status = "running"
              => /\ Len(reqs) = SolvesBefore(Script(op), step - 1)
                 /\ Len(results) = Len(reqs)
         /\ status = "raised" => Len(reqs) = Len(results) + 1
         /\ status = "idle" => Len(reqs) = 3 /\ Len(results) = 3

\* a pick returned all of whose solves failed
C12_Witness ==
    /\ Done("pick")
    /\ Len(reqs) = 3
    /\ \A i \in 1..3 : ~Truthy(results[i].value)
    /\ ExceptionIn("approach")
    /\ InvalidIn("servo")


\* every solve of the current call so far returned a solution for all joints
AllFull == \A i \in 1..Len(results) : DOMAIN results[i].value.d = JointSet

C14_SameKeys ==
    (/\ op \in {"pick", "place"}
     /\ Len(results) >= 2
     /\ Truthy(results[1].value) /\ Truthy(results[2].value))
      => /\ DOMAIN results[1].value.d = DOMAIN results[2].value.d
         /\ DOMAIN results[1].value.d = JointSet


\* C17: the pose the retract solves for is the end-effector pose read at
\* that moment with z raised by the hover distance (same x, y, orientation),
\* not the target pose; so when the approach brought the arm above P and the
\* descend move was skipped, the retract solve is for z = P.z + 2 * hover.
C17_RetractFromCurrentPose ==
    (op \in {"pick", "place"} /\ Len(reqs) = 3)
      => /\ (Cur = "retract_move" \/ status = "raised")
              => \E c \in EndpointPoses(arm) :
                     /\ reqs[3].x = c.x /\ reqs[3].y = c.y /\ reqs[3].q = c.q
                     /\ reqs[3].z = c.z + HoverDistance
         /\ (/\ DOMAIN results[1].value.d = JointSet
             /\ ~Truthy(results[2].value))
              => /\ reqs[3].z = pose.z + 2 * HoverDistance
                 /\ reqs[3] # ApproachPose(pose)

\* a pick returned whose descend was skipped after a full approach
C17_Witness ==
    /\ Done("pick")
    /\ DOMAIN results[1].value.d = JointSet
    /\ ~Truthy(results[2].value)
    /\ ~MovedIn("servo")
    /\ reqs[3].z = pose.z + 2 * HoverDistance


\* C18: the approach works on a copy.  The pose argument keeps its z, the
\* descend solve is requested for the pose as the caller gave it and not for
\* the pose raised by the hover distance, and the pose is unchanged when
\* pick or place returns.
C18_PoseNotModified ==
    (op \in {"pick", "place"} /\ status \in {"running", "idle", "raised"})
      => /\ pose \in BlockPoses
         /\ Len(reqs) >= 1
              => /\ reqs[1].z = pose.z + HoverDistance
                 /\ pose = [reqs[1] EXCEPT !.z = reqs[1].z - HoverDistance]
         /\ Len(reqs) >= 2
              => /\ reqs[2] = pose
                 /\ reqs[2].z = reqs[1].z - HoverDistance

C18_Witness ==
    /\ Done("place")
    /\ Len(reqs) = 3
    /\ reqs[2] = pose
    /\ reqs[1].z = pose.z + HoverDistance
    /\ pose \in BlockPoses


\* C19: when the kinematics service is not available at the check made by
\* the constructor, construction aborts before the robot is enabled, and
\* that controller never sends a solve request, an arm move or a gripper
\* command: nothing more can happen.
C19_UnavailableAborts ==
    (raised = "ROSException" \/ status = "dead")
      => /\ status = "dead"
         /\ raised = "ROSException"
         /\ ~enabled
         /\ attrs = AttrsBeforeWait
         /\ cmds = <<>> /\ reqs = <<>> /\ inflight = {}
         /\ ncalls = 0
         /\ ~ENABLED Next

C19_Witness ==
    /\ status = "dead"
    /\ raised = "ROSException"
    /\ ~enabled
    /\ "_iksvc" \in attrs

\* C20: move_to_start with a non-empty joint configuration issues one move
\* to that configuration, then one gripper-open, signals ready only after
\* both have returned, sends no solve request and never closes the gripper.
C20_StartWithAngles ==
    (/\ op = "move_to_start"
     /\ status \in {"running", "idle", "raised"}
     /\ Truthy(start_angles))
      => /\ status # "raised"
         /\ reqs = <<>>
         /\ IsPrefix(Kinds(cmds),
                     <<<<"move", "start">>, <<"open", "gripper_open">>,
                       <<"sleep", "gripper_open">>, <<"sleep", "start">>,
                       <<"ready", "start">>>>)
         /\ Len(cmds) >= 1 => cmds[1].angles = start_angles.d
         /\ Len(cmds) >= 1 => arm = MoveArm(arm0, start_angles.d)
         /\ Len(cmds) >= 2 => gripper = "open"
         /\ Len(cmds) = 5 => inflight = {}
         /\ status = "idle" => Len(cmds) = 5

C20_Witness ==
    /\ Done("move_to_start")
    /\ start_angles = PyDict(StartingJointAngles)
    /\ Len(ArmCmds) = 2
    /\ cmds[Len(cmds)].op = "ready"
    /\ arm = StartingJointAngles


\* the phases of a script in the order its statements visit them
PhasesOf(script) ==
    LET ph == [i \in 1..Len(script) |-> Phase(script[i])]
        keep == {i \in 1..Len(ph) : i = 1 \/ ph[i] # ph[i-1]}
        nth[k \in 1..Cardinality(keep)] ==
            CHOOSE i \in keep : Cardinality({j \in keep : j < i}) = k - 1
    IN  [k \in 1..Cardinality(keep) |-> ph[nth[k]]]

InCycle == op \in {"pick", "place"} /\ status = "running"

C16_OneCallInFlight ==
    /\ Cardinality(inflight) <= 1
    /\ inflight # {}
         => /\ status = "running"
            /\ inflight = {<<ExternalCall, step>>}

\* the descend move of a pick is in flight
C16_Witness ==
    /\ op = "pick"
    /\ Cur = "servo_move"
    /\ inflight = {<<"move", step>>}


\* the last gripper command of the current call, "none" if it made none
LastGripperCmd ==
    IF GripperCmds = <<>> THEN "none" ELSE GripperCmds[Len(GripperCmds)].op

\* C21: whatever its solves returned, a pick that has returned leaves the
\* gripper commanded closed and a place that has returned leaves it
\* commanded open; and a place sends no gripper command and leaves the
\* commanded state as it found it until its release step, which comes after
\* the approach and the descend.
C21_GripperFollowsLastCall ==
    /\ [](Done("pick") => gripper = "closed" /\ LastGripperCmd = "close")
    /\ [](Done("place") => gripper = "open" /\ LastGripperCmd = "open")
    /\ []((op = "place" /\ status \in {"running", "raised"}
             /\ Len(results) < 2)
            => GripperCmds = <<>>)
    /\ [][ (op = "place" /\ status = "running" /\ Cur # "gripper_open")
             => gripper' = gripper /\ GripperCmds' = GripperCmds ]_vars

\* a place has returned after a pick, its descend solve having failed
C21_Witness ==
    /\ Done("place")
    /\ prev.op = "pick"
    /\ ~Truthy(results[2].value)
    /\ gripper = "open"


\* the error log entries the current call wrote in the given phase
ErrsIn(phase) == SelectSeq(errs, LAMBDA e : e.phase = phase)

\* the move commands the current call issued in the given phase
MovesIn(phase) ==
    SelectSeq(cmds, LAMBDA c : c.op = "move" /\ c.phase = phase)

\* the phase of the i-th solve of the current call is over: its guarded
\* move has returned
PhaseOver(i) == ~(status = "running" /\ Phase(Cur) = results[i].phase)

\* C22: a phase whose solve failed has written exactly two error log
\* entries, the solver's (invalid pose or service failure) and then the
\* guarded move's refusal, and issued no move; a phase whose solve succeeded
\* has written no error log entry and issued exactly one move.
C22_TwoErrorsOrOneMove ==
    \A i \in 1..Len(results) :
        (op \in {"pick", "place"} /\ PhaseOver(i))
          => LET ph == results[i].phase
             IN  IF Truthy(results[i].value)
                 THEN ErrsIn(ph) = <<>> /\ Len(MovesIn(ph)) = 1
                 ELSE /\ Len(ErrsIn(ph)) = 2
                      /\ ErrsIn(ph)[1].msg
                           \in {"INVALID POSE", "Service call failed"}
                      /\ ErrsIn(ph)[2].msg = "No Joint Angles provided"
                      /\ MovesIn(ph) = <<>>

====
